---- MODULE Spec2Model ----
(***************************************************************************)
(* A model of bzz: the token authentication handlers (bzz/auth.py), the    *)
(* REST dispatcher with its path resolution (bzz/rest_handler.py) and the  *)
(* SQLAlchemy provider's pagination and serializer                         *)
(* (bzz/providers/sqlalchemy_provider.py).                                 *)
(*                                                                         *)
(* Four specifications share the module's variables:                       *)
(*   SpecAuth  the sign-in / guarded request / me handlers and the clock   *)
(*   SpecRest  the REST handlers over a store of root instances            *)
(*   SpecList  get_list applied to bounded inputs                          *)
(*   SpecDump  dump_instance applied to bounded relation graphs            *)
(*   SpecFields  save_new_instance and update_instance on an instance's    *)
(*             fields                                                      *)
(*   SpecStore get_instance and delete_instance on a store                 *)
(***************************************************************************)
EXTENDS Integers, Sequences, FiniteSets, TLC

VARIABLES
    now,        \* the clock read by datetime.utcnow()
    cookie,     \* the client's token cookie (what it presents next)
    pc,         \* position of the sign-in coroutine: "idle" or "authenticate"
    req,        \* the request being handled (or the last one handled)
    resp,       \* the handler's response: status, log of effects, body
    store,      \* REST: owner of every child instance, and the root ids
    rest,       \* REST: the last request and its outcome
    lst,        \* get_list: the inputs drawn and the result
    dmp,        \* dump_instance: the graph drawn and the result
    prv,        \* provider: the last get_instance / delete_instance and its result
    fld         \* provider: an instance's fields, the data drawn and the result

vars == <<now, cookie, pc, req, resp, store, rest, lst, dmp, prv, fld>>

(***************************************************************************)
(* Bounds                                                                  *)
(***************************************************************************)
MaxTime == 4

\* ids of stored instances are 1..MaxId
MaxId == 2

\* a resource path has at most MaxPathLen segments
MaxPathLen == 2

\* get_list is applied to collections of at most MaxCount rows,
\* pages -MaxBack..MaxPage and page sizes 1..MaxPerPage
MaxCount == 4
MaxBack == 2
MaxPage == 5
MaxPerPage == 3

\* dump_instance is applied to graphs of MaxNodes instances
MaxNodes == 3

\* request data hold at most MaxKeys keys, with values 1..MaxVal
MaxKeys == 2
MaxVal == 1

\* AuthHive.configure(expiration=...): the configured time to live, in ticks
Expiration == 2

(***************************************************************************)
(* Authentication: values                                                  *)
(***************************************************************************)
SecretKey == "secret"

NoUser == [absent |-> TRUE, id |-> "", email |-> "", name |-> "", provider |-> ""]

NoPayload ==
    [sub |-> "", data |-> NoUser, iss |-> "", token |-> "", iat |-> 0, exp |-> 0]

\* get_cookie(cookie_name) when the request carries no token cookie
NoCookie == [key |-> "absent", payload |-> NoPayload]

\* the provider names a client may send; only "google" is configured
ProviderNames == {"google", "facebook"}

\* AuthHive.routes_for: the providers dictionary of the handlers
Providers == {"google"}

\* external access tokens a client may send
AccessTokens == {"tokA", "tokB"}

\* what Google's userinfo endpoint may answer
UserinfoResponses ==
    [code : {200, 401}, error : BOOLEAN, id : {"u1", "u2"}]

NoBody ==
    [written |-> FALSE, authenticated |-> FALSE, has_user_data |-> FALSE,
     user_data |-> NoUser, loggedOut |-> FALSE]

Event(op, tok) == [op |-> op, tok |-> tok]

\* a fresh RequestHandler: status 200, nothing written, no exception raised
NewHandler == [status |-> 200, log |-> <<>>, body |-> NoBody, raised |-> FALSE]

NoRequest ==
    [kind |-> "none", provider |-> "", access_token |-> "",
     presented |-> NoCookie, at |-> 0, answer |-> NoUser, previous |-> NoCookie]

(***************************************************************************)
(* utils.Jwt: a token is the claims signed with the secret key; decoding   *)
(* verifies the signature and the expiry.                                  *)
(***************************************************************************)
JwtEncode(payload) == [key |-> SecretKey, payload |-> payload]

JwtTryToDecode(c, t) ==
    IF c.key = SecretKey /\ t < c.payload.exp
    THEN [valid |-> TRUE, payload |-> c.payload]
    ELSE [valid |-> FALSE, payload |-> NoPayload]

\* a token whose signature does not verify
Forged(c) == [key |-> "forged", payload |-> c.payload]

(***************************************************************************)
(* AuthHandler                                                             *)
(***************************************************************************)
Log(h, e) == [h EXCEPT !.log = Append(@, e)]

\* faulty variant: the status is set but Finish is not raised
SetUnauthorizedNoFinish(h) ==
    [Log(h, Event("set_status", NoCookie)) EXCEPT !.status = 401]

\* handler.set_status(401); raise tornado.web.Finish()
SetUnauthorized(h) ==
    [Log(h, Event("set_status", NoCookie)) EXCEPT !.status = 401, !.raised = TRUE]

IsAuthenticated(c, t) == JwtTryToDecode(c, t)

\* faulty variant: the expiry is not pushed forward
RenewedPayloadStale(payload, t) == [payload EXCEPT !.iat = t]

\* faulty variant: the expiry is counted from the old issue time
RenewedPayloadFromIat(payload, t) ==
    [payload EXCEPT !.iat = t, !.exp = payload.iat + Expiration]

\* payload.update(dict(iat=utcnow(), exp=utcnow() + timedelta(seconds=expiration)))
RenewedPayload(payload, t) ==
    [payload EXCEPT !.iat = t, !.exp = t + Expiration]

RenewAuthentication(h, payload, t) ==
    LET token == JwtEncode(RenewedPayload(payload, t))
    IN  Log(Log(h, Event("encode", token)), Event("set_cookie", token))

\* faulty variant: the cookie is not cleared
SignoutPostNoClear(h) ==
    [Log(h, Event("write", NoCookie))
        EXCEPT !.body = [NoBody EXCEPT !.written = TRUE, !.loggedOut = TRUE]]

\* AuthSignoutHandler.post, the body under @authenticated
SignoutPost(h) ==
    [Log(Log(h, Event("clear_cookie", NoCookie)), Event("write", NoCookie))
        EXCEPT !.body = [NoBody EXCEPT !.written = TRUE, !.loggedOut = TRUE]]

\* any other handler method under @authenticated: it writes a response
GuardedBody(h) ==
    [Log(h, Event("write", NoCookie)) EXCEPT !.body = [NoBody EXCEPT !.written = TRUE]]

GuardedMethods == {"signout", "resource"}

Method(name, h) ==
    LET entered == Log(h, Event("body", NoCookie))
    IN  IF name = "signout" THEN SignoutPost(entered) ELSE GuardedBody(entered)

\* authenticated(method).wrapper
Wrapper(name, h, c, t) ==
    LET dec == IsAuthenticated(c, t)
        guarded == IF dec.valid
                   THEN RenewAuthentication(h, dec.payload, t)
                   ELSE SetUnauthorized(h)
    IN  IF guarded.raised THEN guarded ELSE Method(name, guarded)

\* faulty variant: me renews the token of an authenticated request
MeGetRenews(h, c, t) ==
    LET dec == IsAuthenticated(c, t)
        result == [NoBody EXCEPT !.written = TRUE,
                                 !.authenticated = dec.valid,
                                 !.has_user_data = dec.valid,
                                 !.user_data = IF dec.valid THEN dec.payload.data
                                               ELSE NoUser]
        g == IF dec.valid THEN RenewAuthentication(h, dec.payload, t) ELSE h
    IN  [Log(Log(g, Event("set_status", NoCookie)), Event("write", NoCookie))
            EXCEPT !.status = 200, !.body = result]

\* AuthMeHandler.get
MeGet(h, c, t) ==
    LET dec == IsAuthenticated(c, t)
        result == [NoBody EXCEPT !.written = TRUE,
                                 !.authenticated = dec.valid,
                                 !.has_user_data = dec.valid,
                                 !.user_data = IF dec.valid THEN dec.payload.data
                                               ELSE NoUser]
    IN  [Log(Log(h, Event("set_status", NoCookie)), Event("write", NoCookie))
            EXCEPT !.status = 200, !.body = result]

\* GoogleProvider.authenticate: the user record, or None
GoogleAuthenticate(response) ==
    IF response.code = 200 /\ ~response.error
    THEN [absent |-> FALSE, id |-> response.id, email |-> "mail", name |-> "name",
          provider |-> "google"]
    ELSE NoUser

\* AuthSigninHandler.post up to the yield on provider.authenticate
SigninBegin(h, provider_name) ==
    IF provider_name \notin Providers
    THEN SetUnauthorized(h)
    ELSE Log(h, Event("authenticate", NoCookie))

\* faulty variant: the token is issued whatever the provider answered
SigninResumeAlways(h, provider_name, access_token, user_data, t) ==
    LET payload == [sub |-> user_data.id, data |-> user_data, iss |-> provider_name,
                    token |-> access_token, iat |-> t, exp |-> t + Expiration]
        auth_token == JwtEncode(payload)
    IN  [Log(Log(Log(Log(h, Event("encode", auth_token)),
                     Event("authorized_user", NoCookie)),
                 Event("set_cookie", auth_token)),
             Event("write", NoCookie))
            EXCEPT !.body = [NoBody EXCEPT !.written = TRUE, !.authenticated = TRUE]]

\* AuthSigninHandler.post after provider.authenticate answered
SigninResume(h, provider_name, access_token, user_data, t) ==
    IF ~user_data.absent
    THEN LET payload == [sub |-> user_data.id, data |-> user_data,
                         iss |-> provider_name, token |-> access_token,
                         iat |-> t, exp |-> t + Expiration]
             auth_token == JwtEncode(payload)
         IN  [Log(Log(Log(Log(h, Event("encode", auth_token)),
                          Event("authorized_user", NoCookie)),
                      Event("set_cookie", auth_token)),
                  Event("write", NoCookie))
                 EXCEPT !.body = [NoBody EXCEPT !.written = TRUE,
                                                !.authenticated = TRUE]]
    ELSE SetUnauthorized(Log(h, Event("unauthorized_user", NoCookie)))

(***************************************************************************)
(* The response's token carrier, and the client's cookie after it          *)
(***************************************************************************)
HasEvent(l, op) == \E i \in 1..Len(l) : l[i].op = op

CookieEvents(l) == SelectSeq(l, LAMBDA e : e.op \in {"set_cookie", "clear_cookie"})

\* the client keeps its cookie unless the response sets or clears it;
\* a later Set-Cookie of the same name overrides an earlier one
CookieAfter(c, h) ==
    LET ce == CookieEvents(h.log)
    IN  IF ce = <<>> THEN c
        ELSE IF ce[Len(ce)].op = "clear_cookie" THEN NoCookie
        ELSE ce[Len(ce)].tok

\* the token a guarded handler's renewal put in the response, if any
RenewedBy(kind, h) ==
    LET sc == SelectSeq(h.log, LAMBDA e : e.op = "set_cookie")
    IN  IF kind \in GuardedMethods /\ sc # <<>> THEN sc[1].tok ELSE NoCookie

\* what a client may present: its cookie, nothing, or a forgery of its cookie
Presentable == {cookie, NoCookie, Forged(cookie)}

(***************************************************************************)
(* Authentication: actions                                                 *)
(***************************************************************************)
Tick ==
    /\ now < MaxTime
    /\ now' = now + 1
    /\ UNCHANGED <<cookie, pc, req, resp, store, rest, lst, dmp, prv, fld>>

GuardedRequest ==
    /\ pc = "idle"
    /\ \E name \in GuardedMethods, c \in Presentable :
         LET h == Wrapper(name, NewHandler, c, now)
         IN  /\ resp' = h
             /\ req' = [NoRequest EXCEPT !.kind = name, !.presented = c, !.at = now,
                                         !.previous = RenewedBy(req.kind, resp)]
             /\ cookie' = CookieAfter(cookie, h)
    /\ UNCHANGED <<now, pc, store, rest, lst, dmp, prv, fld>>

MeRequest ==
    /\ pc = "idle"
    /\ \E c \in Presentable :
         LET h == MeGet(NewHandler, c, now)
         IN  /\ resp' = h
             /\ req' = [NoRequest EXCEPT !.kind = "me", !.presented = c, !.at = now]
             /\ cookie' = CookieAfter(cookie, h)
    /\ UNCHANGED <<now, pc, store, rest, lst, dmp, prv, fld>>

SigninRequest ==
    /\ pc = "idle"
    /\ \E provider_name \in ProviderNames, access_token \in AccessTokens :
         LET h == SigninBegin(NewHandler, provider_name)
         IN  /\ resp' = h
             /\ req' = [NoRequest EXCEPT !.kind = "signin", !.at = now,
                                         !.provider = provider_name,
                                         !.access_token = access_token]
             /\ pc' = IF h.raised THEN "idle" ELSE "authenticate"
    /\ UNCHANGED <<now, cookie, store, rest, lst, dmp, prv, fld>>

SigninAnswer ==
    /\ pc = "authenticate"
    /\ \E response \in UserinfoResponses :
         LET user_data == GoogleAuthenticate(response)
             h == SigninResume(resp, req.provider, req.access_token, user_data, now)
         IN  /\ resp' = h
             /\ cookie' = CookieAfter(cookie, h)
             /\ req' = [req EXCEPT !.at = now, !.answer = user_data]
    /\ pc' = "idle"
    /\ UNCHANGED <<now, store, rest, lst, dmp, prv, fld>>

(***************************************************************************)
(* SQLAlchemyProvider.get_list                                             *)
(***************************************************************************)
Min(a, b) == IF a < b THEN a ELSE b
Max(a, b) == IF a > b THEN a ELSE b

SubSeqOrEmpty(s, lo, hi) == IF lo > hi THEN <<>> ELSE SubSeq(s, lo, hi)

\* list(queryset)[start:stop], Python's slice of a list (0-based, stop excluded)
PySlice(s, start, stop) ==
    LET n == Len(s)
        lo == IF start < 0 THEN Max(n + start, 0) ELSE Min(start, n)
        hi == IF stop < 0 THEN Max(n + stop, 0) ELSE Min(stop, n)
    IN  SubSeqOrEmpty(s, lo + 1, hi)

\* queryset[start:stop]: an empty range is empty, a negative index slices the
\* loaded list, anything else is OFFSET start LIMIT stop - start
QuerySlice(s, start, stop) ==
    IF stop - start <= 0 THEN <<>>
    ELSE IF start < 0 \/ stop < 0 THEN PySlice(s, start, stop)
    ELSE SubSeqOrEmpty(s, start + 1, Min(stop, Len(s)))

\* queryset.filter(field == value) for every filter; "" is no filter
Filtered(rows, tag) ==
    IF tag = "" THEN rows ELSE SelectSeq(rows, LAMBDA r : r.tag = tag)

\* faulty variant: the page count is rounded down
PagesFloor(count, per_page) == count \div per_page

\* int(math.ceil(count / float(per_page)))
Pages(count, per_page) ==
    IF count % per_page = 0 THEN count \div per_page ELSE (count \div per_page) + 1

\* faulty variant: an out-of-range page is not clamped
ClampPageNot(page, pages) == page

\* if page > pages: page = pages
ClampPage(page, pages) == IF page > pages THEN pages ELSE page

GetList(rows, page, per_page, tag) ==
    LET queryset == Filtered(rows, tag)
        count == Len(queryset)
        pages == Pages(count, per_page)
    IN  IF pages = 0 THEN <<>>
        ELSE LET p == ClampPage(page, pages) - 1
                 start == per_page * p
                 stop == start + per_page
             IN  QuerySlice(queryset, start, stop)

DefaultPage == 1
DefaultPerPage == 20

(***************************************************************************)
(* The fields of an instance and the request data                          *)
(*                                                                         *)
(* The handler's model, User, has the column name, the single-valued       *)
(* relation address and the multi-valued relation orders; an Address has   *)
(* the columns city and zip and the single-valued relation geo; a Geo has  *)
(* the column lat.  0 is None.                                             *)
(***************************************************************************)
Vals == 1..MaxVal

NoGeo == [present |-> FALSE, lat |-> 0]
NoAddress == [present |-> FALSE, city |-> 0, zip |-> 0, geo |-> NoGeo]

\* model(): a new instance, nothing assigned
FreshUser == [name |-> 0, address |-> NoAddress, orders |-> <<>>]

Geos == {NoGeo} \cup [present : {TRUE}, lat : 0..MaxVal]

Addresses ==
    {NoAddress} \cup [present : {TRUE}, city : 0..MaxVal, zip : 0..MaxVal, geo : Geos]

UserRecs == [name : 0..MaxVal, address : Addresses, orders : {<<>>, <<1>>}]

\* get_instance(value, Address): the stored Address with that id
AddressRow(v) == [present |-> TRUE, city |-> v, zip |-> v, geo |-> NoGeo]

\* a key of the request data, split at its dots
KeyName == <<"name">>
KeyAddress == <<"address">>
KeyCity == <<"address", "city">>
KeyLat == <<"address", "geo", "lat">>
KeyOrders == <<"orders[]">>
Keys == {KeyName, KeyAddress, KeyCity, KeyLat, KeyOrders}

\* '.' in key, '[]' in key
HasDot(key) == Len(key) > 1
HasBrackets(key) == \E i \in 1..Len(key) : key[i] = "orders[]"

\* field_name.endswith('[]'), field_name.replace('[]', '')
EndsWithBrackets(part) == part = "orders[]"
StripBrackets(part) == IF part = "orders[]" THEN "orders" ELSE part

\* data.items(): the keys of a dictionary in the order it yields them
Datas ==
    UNION { { d \in [1..n -> [key : Keys, value : Vals]] :
                \A i, j \in 1..n : i # j => d[i].key # d[j].key }
            : n \in 0..MaxKeys }

Attributes == {"name", "address", "orders"}

\* the values updated_fields holds: a column's value, a related object, a list
NoBox == [k |-> "none", s |-> 0, a |-> NoAddress, l |-> <<>>]
ScalarBox(v) == [NoBox EXCEPT !.k = "scalar", !.s = v]
ObjectBox(a) == [NoBox EXCEPT !.k = "object", !.a = a]
ListBox(l) == [NoBox EXCEPT !.k = "list", !.l = l]

\* str(value)
StrBox(v) == [NoBox EXCEPT !.k = "str", !.s = v]

\* getattr(instance, field_name)
AttrBox(inst, f) ==
    IF f = "name" THEN ScalarBox(inst.name)
    ELSE IF f = "address" THEN ObjectBox(inst.address)
    ELSE ListBox(inst.orders)

\* a dictionary {field: {'from': ..., 'to': ...}}: the entries with present
Changed(uf, f, from, to) ==
    [uf EXCEPT ![f] = [present |-> TRUE, from |-> from, to |-> to]]

NoUpdatedFields ==
    [f \in Attributes |-> [present |-> FALSE, from |-> NoBox, to |-> NoBox]]

Filled(inst, uf, raised) == [inst |-> inst, uf |-> uf, raised |-> raised]

\* fill_property on the related Address, for the rest of a key of three parts:
\* setattr(getattr(address, 'geo'), 'lat', value)
FillAddress(addr, ps, v) ==
    IF ~addr.present THEN [addr |-> addr, raised |-> TRUE]
    ELSE IF Len(ps) = 2 /\ ps[1] = "geo"
    THEN IF ~addr.geo.present THEN [addr |-> addr, raised |-> TRUE]
         ELSE IF ps[2] = "lat"
         THEN [addr |-> [addr EXCEPT !.geo.lat = v], raised |-> FALSE]
         ELSE [addr |-> addr, raised |-> FALSE]
    ELSE [addr |-> addr, raised |-> TRUE]

\* SQLAlchemyProvider.fill_property on a User; present is FALSE when instance
\* is None.  A key of more than two parts recurses on the related object
\* without updated_fields; otherwise the field's entry is recorded (from the
\* related object, to str(value)) and the value is appended to the relation
\* or assigned on the related object.
FillProperty(inst, present, ps, v, track, uf) ==
    LET field_name == StripBrackets(ps[1])
        multiple == EndsWithBrackets(ps[1])
        property_name == Tail(ps)
    IN  IF Len(property_name) <= 1
        THEN IF ~present \/ field_name \notin Attributes
             THEN Filled(inst, uf, TRUE)
             ELSE LET uf1 == IF track
                             THEN Changed(uf, field_name, AttrBox(inst, field_name),
                                          StrBox(v))
                             ELSE uf
                  IN  IF multiple /\ field_name = "orders"
                      THEN Filled([inst EXCEPT !.orders = Append(@, v)], uf1, FALSE)
                      ELSE IF field_name = "address" /\ inst.address.present
                      THEN IF property_name = <<"city">>
                           THEN Filled([inst EXCEPT !.address.city = v], uf1, FALSE)
                           ELSE IF property_name = <<"zip">>
                           THEN Filled([inst EXCEPT !.address.zip = v], uf1, FALSE)
                           ELSE Filled(inst, uf1, FALSE)
                      ELSE Filled(inst, uf1, TRUE)
        ELSE IF ~present \/ field_name # "address"
        THEN Filled(inst, uf, TRUE)
        ELSE LET sub == FillAddress(inst.address, property_name, v)
             IN  Filled([inst EXCEPT !.address = sub.addr], uf, sub.raised)

\* the else branch of both loops: a reference is resolved by its id, the
\* update records the entry (from the attribute, to the value), then setattr
AssignPlain(inst, present, key, v, track, uf) ==
    LET f == key[1]
        to == IF f = "address" THEN ObjectBox(AddressRow(v)) ELSE ScalarBox(v)
    IN  IF ~present \/ f \notin Attributes
        THEN Filled(inst, uf, TRUE)
        ELSE LET uf1 == IF track THEN Changed(uf, f, AttrBox(inst, f), to) ELSE uf
             IN  IF f = "name" THEN Filled([inst EXCEPT !.name = v], uf1, FALSE)
                 ELSE IF f = "address"
                 THEN Filled([inst EXCEPT !.address = AddressRow(v)], uf1, FALSE)
                 ELSE Filled(inst, uf1, TRUE)

\* save_new_instance: if '.' in key or '[]' in key
SaveSendsToFill(key) == HasDot(key) \/ HasBrackets(key)

\* update_instance: if '.' in field_name
UpdateSendsToFill(key) == HasDot(key)

\* the loop of save_new_instance over data.items(), from item i on
RECURSIVE SaveLoop(_, _, _)
SaveLoop(inst, data, i) ==
    IF i > Len(data) THEN Filled(inst, NoUpdatedFields, FALSE)
    ELSE LET r == IF SaveSendsToFill(data[i].key)
                  THEN FillProperty(inst, TRUE, data[i].key, data[i].value, FALSE,
                                    NoUpdatedFields)
                  ELSE AssignPlain(inst, TRUE, data[i].key, data[i].value, FALSE,
                                   NoUpdatedFields)
         IN  IF r.raised THEN r ELSE SaveLoop(r.inst, data, i + 1)

\* the loop of update_instance over get_request_data().items(), from item i on
RECURSIVE UpdateLoop(_, _, _, _, _)
UpdateLoop(inst, present, data, i, uf) ==
    IF i > Len(data) THEN Filled(inst, uf, FALSE)
    ELSE LET r == IF UpdateSendsToFill(data[i].key)
                  THEN FillProperty(inst, present, data[i].key, data[i].value, TRUE, uf)
                  ELSE AssignPlain(inst, present, data[i].key, data[i].value, TRUE, uf)
         IN  IF r.raised THEN r ELSE UpdateLoop(r.inst, present, data, i + 1, r.uf)

\* a provider call on the fields: what the session holds of the instance
\* afterwards, what is committed, and what the call returned
Outcome(session, in_session, db, in_db, raised, returned, uf) ==
    [session |-> session, in_session |-> in_session, db |-> db, in_db |-> in_db,
     raised |-> raised, returned |-> returned, uf |-> uf]

\* SQLAlchemyProvider.save_new_instance: the instance reaches the session only
\* at db.add, after the loop; it returns the pair (instance, None)
SaveNewFields(data) ==
    LET r == SaveLoop(FreshUser, data, 1)
    IN  IF r.raised
        THEN Outcome(FreshUser, FALSE, FreshUser, FALSE, TRUE, 0, NoUpdatedFields)
        ELSE Outcome(r.inst, TRUE, r.inst, TRUE, FALSE, 2, NoUpdatedFields)

\* SQLAlchemyProvider.update_instance: the loop assigns on the instance the
\* session holds; save_instance commits; it returns the triple
\* (None, instance, updated_fields)
UpdateFields(inst, present, data) ==
    LET r == UpdateLoop(inst, present, data, 1, NoUpdatedFields)
    IN  IF r.raised
        THEN Outcome(r.inst, present, inst, present, TRUE, 0, r.uf)
        ELSE Outcome(r.inst, present, r.inst, present, FALSE, 3, r.uf)

NoFields ==
    [rec |-> FreshUser, present |-> FALSE, data |-> <<>>, op |-> "", done |-> FALSE,
     out |-> Outcome(FreshUser, FALSE, FreshUser, FALSE, FALSE, 0, NoUpdatedFields),
     read |-> FreshUser, was_read |-> FALSE]

FieldInputs ==
    { [NoFields EXCEPT !.rec = rec, !.present = TRUE, !.data = data] :
        rec \in UserRecs, data \in Datas }

SaveNewCall ==
    /\ ~fld.done
    /\ fld' = [fld EXCEPT !.op = "save_new_instance", !.done = TRUE,
                          !.out = SaveNewFields(fld.data)]
    /\ UNCHANGED <<now, cookie, pc, req, resp, store, rest, lst, dmp, prv>>

UpdateCall ==
    /\ ~fld.done
    /\ fld' = [fld EXCEPT !.op = "update_instance", !.done = TRUE,
                          !.out = UpdateFields(fld.rec, fld.present, fld.data)]
    /\ UNCHANGED <<now, cookie, pc, req, resp, store, rest, lst, dmp, prv>>

\* a later get_instance through the same session: the instance it holds
ReadCall ==
    /\ fld.done
    /\ ~fld.was_read
    /\ fld.out.in_session
    /\ fld' = [fld EXCEPT !.read = fld.out.session, !.was_read = TRUE]
    /\ UNCHANGED <<now, cookie, pc, req, resp, store, rest, lst, dmp, prv>>

(***************************************************************************)
(* REST: the store, objects and path resolution                            *)
(***************************************************************************)
Ids == 1..MaxId

\* the handler's model is User; a User has the multi-valued relation orders
RootModel == "User"
FieldNames == {"users", "orders"}

\* store.users, store.orders: ids of the stored User and Order instances
\* store.owner[o]: the User whose orders hold Order o, 0 when no User does
Stores ==
    { s \in [users : SUBSET Ids, orders : SUBSET Ids, owner : [Ids -> 0..MaxId]] :
        \A o \in Ids :
            s.owner[o] = 0 \/ (o \in s.orders /\ s.owner[o] \in s.users) }

\* a store that holds nothing
EmptyStore == [users |-> {}, orders |-> {}, owner |-> [o \in Ids |-> 0]]

RECURSIVE Ascending(_, _)
Ascending(S, from) ==
    IF from > MaxId THEN <<>>
    ELSE IF from \in S THEN <<from>> \o Ascending(S, from + 1)
    ELSE Ascending(S, from + 1)

OrdersOf(st, u) == Ascending({o \in Ids : st.owner[o] = u}, 1)

NoneObj == [kind |-> "none", type |-> "", id |-> 0, items |-> <<>>]
ErrorObj == [kind |-> "error", type |-> "", id |-> 0, items |-> <<>>]
Instance(type, id) == [kind |-> "instance", type |-> type, id |-> id, items |-> <<>>]
ListObj(type, items) == [kind |-> "list", type |-> type, id |-> 0, items |-> items]

\* a segment "field/id"; id = 0 is the segment "field"
Segments == [field : FieldNames, id : 0..MaxId]

\* the paths the routes hand to the handler of the users collection: the first
\* segment names that collection and every segment but the last has an id
Paths ==
    UNION { { p \in [1..n -> Segments] :
                /\ p[1].field = "users"
                /\ \A i \in 1..(n - 1) : p[i].id # 0 }
            : n \in 1..MaxPathLen }

\* self.get_instance(id): the root model's instance with that id, or None
GetInstance(st, id) ==
    IF id \in st.users THEN Instance(RootModel, id) ELSE NoneObj

\* getattr(obj, field)
GetAttr(st, obj, field) ==
    IF obj.kind = "instance" /\ obj.type = "User" /\ field = "orders"
    THEN ListObj("Order", OrdersOf(st, obj.id))
    ELSE ErrorObj

\* self.get_model(obj, field_name): the type the field of obj holds
GetModel(obj, field_name) ==
    IF obj.kind = "none" THEN RootModel
    ELSE IF obj.kind = "instance" /\ obj.type = "User" /\ field_name = "orders"
    THEN "Order"
    ELSE ""

Resolved(obj, field_name, model, pk, fetches) ==
    [obj |-> obj, field_name |-> field_name, model |-> model, pk |-> pk,
     fetches |-> fetches]

\* for part in args[:-1]: fetch when nothing is resolved yet, else descend
RECURSIVE Descend(_, _, _, _, _)
Descend(st, path, i, obj, fetches) ==
    IF i >= Len(path) \/ obj.kind = "error"
    THEN [obj |-> obj, fetches |-> fetches]
    ELSE IF obj.kind = "none"
    THEN Descend(st, path, i + 1, GetInstance(st, path[i].id),
                 Append(fetches, [segment |-> i, id |-> path[i].id]))
    ELSE Descend(st, path, i + 1, GetAttr(st, obj, path[i].field), fetches)

\* ModelRestHandler.get_parent_model
GetParentModel(st, path) ==
    LET n == Len(path)
        walked == Descend(st, path, 1, NoneObj, <<>>)
        obj == walked.obj
        last == path[n]
    IN  IF obj.kind = "error"
        THEN Resolved(ErrorObj, last.field, "", 0, walked.fetches)
        ELSE IF last.id # 0
        THEN IF obj.kind = "none"
             THEN LET found == GetInstance(st, last.id)
                  IN  Resolved(found, last.field,
                               IF found.kind = "none" THEN "NoneType" ELSE found.type,
                               last.id,
                               Append(walked.fetches, [segment |-> n, id |-> last.id]))
             ELSE LET field == GetAttr(st, obj, last.field)
                  IN  Resolved(field, last.field,
                               IF field.kind = "error" THEN ""
                               ELSE GetModel(field, last.field),
                               last.id, walked.fetches)
        ELSE Resolved(obj, last.field, GetModel(obj, last.field), 0, walked.fetches)

\* ModelRestHandler.list: get_list() with its defaults, over the handler's model
List(st) ==
    LET rows == [i \in 1..Len(Ascending(st.users, 1)) |->
                    [id |-> Ascending(st.users, 1)[i], tag |-> ""]]
        items == GetList(rows, DefaultPage, DefaultPerPage, "")
    IN  ListObj(RootModel, [i \in 1..Len(items) |-> items[i].id])

\* what a request leaves behind: the response, the steps the handler took in
\* order (log), the signals sent in order, and the store it started from
NoRest ==
    [method |-> "", path |-> <<>>, status |-> 0, body |-> NoneObj,
     resolved |-> Resolved(NoneObj, "", "", 0, <<>>),
     data |-> <<>>, before |-> EmptyStore, log |-> <<>>, signals |-> <<>>,
     created |-> NoneObj, deleted |-> NoneObj, created_id |-> 0,
     location |-> NoneObj, text |-> ""]

\* ModelRestHandler.get
Get(st, path) ==
    LET r == GetParentModel(st, path)
        out == [NoRest EXCEPT !.method = "GET", !.path = path, !.resolved = r,
                               !.before = st, !.log = <<"get_parent_model">>]
    IN  IF r.obj.kind = "error" THEN [out EXCEPT !.status = 500]
        ELSE IF r.pk = 0 THEN [out EXCEPT !.status = 200, !.body = List(st)]
        ELSE IF r.obj.kind = "none" THEN [out EXCEPT !.status = 404]
        ELSE [out EXCEPT !.status = 200, !.body = r.obj]

\* a handler call: the response it leaves and the store after it
Handled(out, st) == [rest |-> out, store |-> st]

\* an uncaught exception ends the handler: Tornado answers 500
Raised(out, st) ==
    Handled([out EXCEPT !.status = 500, !.log = Append(@, "raise")], st)

\* the data of a request to the handler: at most one key
RestDatas == { d \in Datas : Len(d) <= 1 }

\* the autoincremented id of a new row; none is left when all ids are taken
HasFreeId(st, model) ==
    IF model = "User" THEN st.users # Ids ELSE st.orders # Ids

NewId(st, model) ==
    LET taken == IF model = "User" THEN st.users ELSE st.orders
    IN  CHOOSE i \in Ids \ taken : \A j \in Ids \ taken : i <= j

\* the fields of the stored User u as update_instance finds them
UserFields(st, u) == [FreshUser EXCEPT !.orders = OrdersOf(st, u)]

\* save_new_instance(model, data) raises in its loop: for a User as the
\* fields tell; an Order has none of the fields the keys name, so plain keys
\* are set as attributes and the keys sent to fill_property raise
SaveNewRaises(model, data) ==
    IF model = "User" THEN SaveNewFields(data).raised
    ELSE IF model = "Order"
    THEN \E i \in 1..Len(data) : SaveSendsToFill(data[i].key)
    ELSE TRUE

\* db.add, flush, commit of the new instance
Added(st, model) ==
    IF model = "User" THEN [st EXCEPT !.users = @ \cup {NewId(st, model)}]
    ELSE [st EXCEPT !.orders = @ \cup {NewId(st, model)}]

\* the pair (instance, None) that save_new_instance returns
Pair(instance) == [kind |-> "tuple", type |-> instance.type, id |-> instance.id,
                   items |-> <<>>]

\* associate_instance(obj, field_name, instance) returns: only when obj is
\* None or instance is an instance the relation field_name of obj can hold
AssociateReturns(obj, field_name, instance) ==
    \/ obj.kind = "none"
    \/ /\ obj.kind = "instance"
       /\ obj.type = "User"
       /\ field_name = "orders"
       /\ instance.kind = "instance"
       /\ instance.type = "Order"

\* getattr(obj, field_name).append(instance); save_instance(obj)
Associated(st, obj, instance) ==
    IF obj.kind = "none" THEN st
    ELSE [st EXCEPT !.owner[instance.id] = obj.id]

\* ModelRestHandler.post
Post(st, path, data) ==
    LET r == GetParentModel(st, path)
        out == [NoRest EXCEPT !.method = "POST", !.path = path, !.resolved = r,
                               !.data = data, !.before = st,
                               !.log = <<"get_parent_model">>]
    IN  IF r.obj.kind = "error" THEN Raised(out, st)
        ELSE IF SaveNewRaises(r.model, data)
        THEN Raised([out EXCEPT !.log = Append(@, "save_new_instance")], st)
        ELSE LET st1 == Added(st, r.model)
                 instance == Pair(Instance(r.model, NewId(st, r.model)))
                 out1 == [out EXCEPT !.log = @ \o <<"save_new_instance", "saved",
                                                    "associate_instance">>,
                                     !.created = instance]
             IN  IF ~AssociateReturns(r.obj, r.field_name, instance)
                 THEN Raised(out1, st1)
                 ELSE LET st2 == Associated(st1, r.obj, instance)
                          out2 == [out1 EXCEPT
                                      !.log = @ \o (IF r.obj.kind = "none" THEN <<>>
                                                     ELSE <<"associated">>)
                                                 \o <<"post_create_instance",
                                                      "get_instance_id">>,
                                      !.signals = Append(@, "created")]
                      IN  IF instance.kind # "instance" THEN Raised(out2, st2)
                          ELSE Handled([out2 EXCEPT
                                          !.log = Append(@, "write"),
                                          !.status = 200,
                                          !.created_id = instance.id,
                                          !.location = Instance("users", instance.id),
                                          !.text = "OK"], st2)

\* ModelRestHandler.put: update_instance works on the handler's model and
\* returns three values, which the handler unpacks into two names
Put(st, path, data) ==
    LET r == GetParentModel(st, path)
        out == [NoRest EXCEPT !.method = "PUT", !.path = path, !.resolved = r,
                               !.data = data, !.before = st,
                               !.log = <<"get_parent_model", "update_instance">>]
        instance == GetInstance(st, r.pk)
        updated == UpdateFields(UserFields(st, r.pk), instance.kind = "instance", data)
    IN  IF r.obj.kind = "error"
        THEN Raised([out EXCEPT !.log = <<"get_parent_model">>], st)
        ELSE IF updated.raised THEN Raised(out, st)
        ELSE IF updated.returned # 2
        THEN Raised([out EXCEPT !.log = Append(@, "updated")], st)
        ELSE Handled([out EXCEPT !.log = @ \o <<"updated", "post_update_instance",
                                                "write">>,
                                 !.signals = Append(@, "updated"),
                                 !.status = 200, !.text = "OK"], st)

\* faulty variant: the instance is returned but stays in the store
DeleteInstanceKeeps(st, pk) == [instance |-> GetInstance(st, pk), store |-> st]

\* SQLAlchemyProvider.delete_instance(pk): always on the provider's own model;
\* the orders of a deleted User stay, held by no User
DeleteInstance(st, pk) ==
    LET instance == GetInstance(st, pk)
    IN  IF instance.kind = "none" THEN [instance |-> instance, store |-> st]
        ELSE [instance |-> instance,
              store |-> [st EXCEPT !.users = @ \ {pk},
                                   !.owner = [o \in Ids |-> IF @[o] = pk THEN 0 ELSE @[o]]]]

\* ModelRestHandler.delete
Delete(st, path) ==
    LET r == GetParentModel(st, path)
        out == [NoRest EXCEPT !.method = "DELETE", !.path = path, !.resolved = r,
                               !.before = st, !.log = <<"get_parent_model">>]
        d == DeleteInstance(st, r.pk)
    IN  IF r.obj.kind = "error" THEN Raised(out, st)
        ELSE IF d.instance.kind = "instance"
        THEN Handled([out EXCEPT !.log = @ \o <<"delete_instance", "deleted",
                                                "post_delete_instance", "write">>,
                                 !.signals = Append(@, "deleted"),
                                 !.deleted = d.instance,
                                 !.status = 200, !.text = "OK"], d.store)
        ELSE Handled([out EXCEPT !.log = @ \o <<"delete_instance", "write">>,
                                 !.status = 200, !.text = "FAIL"], d.store)

\* each request gets a handler of its own
NewRequest ==
    /\ rest # NoRest
    /\ rest' = NoRest
    /\ UNCHANGED <<now, cookie, pc, req, resp, store, lst, dmp, prv, fld>>

GetRequest ==
    /\ rest = NoRest
    /\ \E path \in Paths : rest' = Get(store, path)
    /\ UNCHANGED <<now, cookie, pc, req, resp, store, lst, dmp, prv, fld>>

PostRequest ==
    /\ rest = NoRest
    /\ \E path \in Paths, data \in RestDatas :
        LET h == Post(store, path, data)
        IN  /\ HasFreeId(store, "User")
            /\ HasFreeId(store, "Order")
            /\ rest' = h.rest
            /\ store' = h.store
    /\ UNCHANGED <<now, cookie, pc, req, resp, lst, dmp, prv, fld>>

PutRequest ==
    /\ rest = NoRest
    /\ \E path \in Paths, data \in RestDatas :
        LET h == Put(store, path, data)
        IN  /\ rest' = h.rest
            /\ store' = h.store
    /\ UNCHANGED <<now, cookie, pc, req, resp, lst, dmp, prv, fld>>

DeleteRequest ==
    /\ rest = NoRest
    /\ \E path \in Paths :
        LET h == Delete(store, path)
        IN  /\ rest' = h.rest
            /\ store' = h.store
    /\ UNCHANGED <<now, cookie, pc, req, resp, lst, dmp, prv, fld>>

(***************************************************************************)
(* get_instance and delete_instance called on the provider directly        *)
(***************************************************************************)
\* the last call, its result, the store it started from, the ids deleted so
\* far, and whether the id of this call had been deleted before it
NoProv ==
    [op |-> "", pk |-> 0, result |-> NoneObj, before |-> EmptyStore,
     deleted |-> {}, again |-> FALSE]

GetInstanceCall ==
    /\ \E pk \in 0..MaxId :
        prv' = [prv EXCEPT !.op = "get_instance", !.pk = pk,
                           !.result = GetInstance(store, pk),
                           !.before = store,
                           !.again = pk \in prv.deleted]
    /\ UNCHANGED <<now, cookie, pc, req, resp, store, rest, lst, dmp, fld>>

DeleteInstanceCall ==
    /\ \E pk \in 0..MaxId :
        LET d == DeleteInstance(store, pk)
        IN  /\ prv' = [prv EXCEPT !.op = "delete_instance", !.pk = pk,
                                   !.result = d.instance,
                                   !.before = store,
                                   !.deleted = IF d.instance.kind = "instance"
                                               THEN @ \cup {pk} ELSE @,
                                   !.again = pk \in prv.deleted]
            /\ store' = d.store
    /\ UNCHANGED <<now, cookie, pc, req, resp, rest, lst, dmp, fld>>

(***************************************************************************)
(* get_list applied to drawn inputs                                        *)
(***************************************************************************)
Tags == {"a", "b"}

Collections ==
    UNION { { [i \in 1..n |-> [id |-> i, tag |-> t[i]]] : t \in [1..n -> Tags] }
            : n \in 0..MaxCount }

NoList ==
    [rows |-> <<>>, page |-> 1, per_page |-> 1, tag |-> "", done |-> FALSE,
     items |-> <<>>]

ListInputs ==
    { [NoList EXCEPT !.rows = rows, !.page = page, !.per_page = per_page, !.tag = tag] :
        rows \in Collections, page \in (0 - MaxBack)..MaxPage,
        per_page \in 1..MaxPerPage, tag \in Tags \cup {""} }

GetListCall ==
    /\ ~lst.done
    /\ lst' = [lst EXCEPT !.done = TRUE,
                          !.items = GetList(lst.rows, lst.page, lst.per_page, lst.tag)]
    /\ UNCHANGED <<now, cookie, pc, req, resp, store, rest, dmp, prv, fld>>

(***************************************************************************)
(* SQLAlchemyProvider.dump_instance                                        *)
(***************************************************************************)
Nodes == 1..MaxNodes

\* the tree's children of the instances' class: two columns, a single-valued
\* relation and a multi-valued relation
ScalarFields == {"id", "name"}
RefFields == {"next"}
ListFields == {"items"}

\* a graph: next[n] is the instance n refers to (0 is None), custom[n] whether
\* the class of n defines to_dict
Graphs == [next : [Nodes -> 0..MaxNodes], custom : [Nodes -> BOOLEAN]]

EmptyDict ==
    [kind |-> "dict", id |-> 0, scalars |-> [f \in {} |-> 0], refs |-> [f \in {} |-> 0]]

\* instance.to_dict()
ToDict(n) == [EmptyDict EXCEPT !.kind = "custom", !.id = n]

\* getattr(instance, column)
ScalarValue(n, f) == IF f = "id" THEN n ELSE 10 + n

\* faulty variant: the ceiling is one level too low
DepthExceededEarly(depth) == depth > 0

\* if depth > 1: raise MaxDepthError()
DepthExceeded(depth) == depth > 1

RECURSIVE DumpInstance(_, _, _)
DumpInstance(g, n, depth) ==
    IF DepthExceeded(depth) THEN [raised |-> TRUE, out |-> EmptyDict]
    ELSE IF n = 0 THEN [raised |-> FALSE, out |-> EmptyDict]
    ELSE IF g.custom[n] THEN [raised |-> FALSE, out |-> ToDict(n)]
    ELSE LET child == [f \in RefFields |-> DumpInstance(g, g.next[n], depth + 1)]
             kept == {f \in RefFields : ~child[f].raised}
         IN  [raised |-> FALSE,
              out |-> [EmptyDict EXCEPT
                         !.id = n,
                         !.scalars = [f \in ScalarFields |-> ScalarValue(n, f)],
                         !.refs = [f \in kept |-> child[f].out]]]

NoDump ==
    [graph |-> [next |-> [n \in Nodes |-> 0], custom |-> [n \in Nodes |-> FALSE]],
     root |-> 1, done |-> FALSE, raised |-> FALSE, out |-> EmptyDict]

DumpInputs ==
    { [NoDump EXCEPT !.graph = g, !.root = n] : g \in Graphs, n \in Nodes }

DumpCall ==
    /\ ~dmp.done
    /\ LET r == DumpInstance(dmp.graph, dmp.root, 0)
       IN  dmp' = [dmp EXCEPT !.done = TRUE, !.raised = r.raised, !.out = r.out]
    /\ UNCHANGED <<now, cookie, pc, req, resp, store, rest, lst, prv, fld>>

(***************************************************************************)
(* Specifications                                                          *)
(***************************************************************************)
InitAuth ==
    /\ now = 0
    /\ cookie = NoCookie
    /\ pc = "idle"
    /\ req = NoRequest
    /\ resp = NewHandler
    /\ store = EmptyStore
    /\ rest = NoRest
    /\ lst = NoList
    /\ dmp = NoDump
    /\ prv = NoProv
    /\ fld = NoFields

NextAuth == Tick \/ GuardedRequest \/ MeRequest \/ SigninRequest \/ SigninAnswer

SpecAuth == InitAuth /\ [][NextAuth]_vars

InitRest ==
    /\ now = 0
    /\ cookie = NoCookie
    /\ pc = "idle"
    /\ req = NoRequest
    /\ resp = NewHandler
    /\ store \in Stores
    /\ rest = NoRest
    /\ lst = NoList
    /\ dmp = NoDump
    /\ prv = NoProv
    /\ fld = NoFields

NextRest == NewRequest \/ GetRequest \/ PostRequest \/ PutRequest \/ DeleteRequest

SpecRest == InitRest /\ [][NextRest]_vars

InitList ==
    /\ now = 0
    /\ cookie = NoCookie
    /\ pc = "idle"
    /\ req = NoRequest
    /\ resp = NewHandler
    /\ store = EmptyStore
    /\ rest = NoRest
    /\ lst \in ListInputs
    /\ dmp = NoDump
    /\ prv = NoProv
    /\ fld = NoFields

NextList == GetListCall

SpecList == InitList /\ [][NextList]_vars

InitDump ==
    /\ now = 0
    /\ cookie = NoCookie
    /\ pc = "idle"
    /\ req = NoRequest
    /\ resp = NewHandler
    /\ store = EmptyStore
    /\ rest = NoRest
    /\ lst = NoList
    /\ dmp \in DumpInputs
    /\ prv = NoProv
    /\ fld = NoFields

NextDump == DumpCall

SpecDump == InitDump /\ [][NextDump]_vars

InitFields ==
    /\ now = 0
    /\ cookie = NoCookie
    /\ pc = "idle"
    /\ req = NoRequest
    /\ resp = NewHandler
    /\ store = EmptyStore
    /\ rest = NoRest
    /\ lst = NoList
    /\ dmp = NoDump
    /\ prv = NoProv
    /\ fld \in FieldInputs

NextFields == SaveNewCall \/ UpdateCall \/ ReadCall

SpecFields == InitFields /\ [][NextFields]_vars

InitStore ==
    /\ now = 0
    /\ cookie = NoCookie
    /\ pc = "idle"
    /\ req = NoRequest
    /\ resp = NewHandler
    /\ store \in Stores
    /\ rest = NoRest
    /\ lst = NoList
    /\ dmp = NoDump
    /\ prv = NoProv
    /\ fld = NoFields

NextStore == GetInstanceCall \/ DeleteInstanceCall

SpecStore == InitStore /\ [][NextStore]_vars

Init == InitAuth
Next == NextAuth
Spec == SpecAuth

(***************************************************************************)
(* Properties of the authentication handlers (SpecAuth)                    *)
(***************************************************************************)
\* a token is valid iff it is present, its signature verifies and it has not
\* expired at the time of the request
PresentedValid == req.presented.key = SecretKey /\ req.at < req.presented.payload.exp

GuardedDone == req.kind \in GuardedMethods

Position(l, op) == CHOOSE i \in 1..Len(l) : l[i].op = op

\* C1: a guarded request whose token is absent, invalid or expired gets status
\* 401 and nothing of the handler body happens (no body entry, no cookie
\* write, no response body); the body runs only when the token was valid.
C1_UnauthorizedNeverRunsBody ==
    GuardedDone =>
        /\ ~PresentedValid =>
              /\ resp.status = 401
              /\ ~HasEvent(resp.log, "body")
              /\ ~HasEvent(resp.log, "set_cookie")
              /\ ~HasEvent(resp.log, "clear_cookie")
              /\ ~HasEvent(resp.log, "write")
              /\ ~HasEvent(resp.log, "encode")
              /\ resp.body = NoBody
        /\ HasEvent(resp.log, "body") => PresentedValid /\ resp.status = 200

\* a guarded request that presented a correctly signed but expired token
C1_Witness ==
    /\ req.kind = "resource"
    /\ req.presented.key = SecretKey
    /\ req.at >= req.presented.payload.exp
    /\ resp.status = 401

\* C2: on a guarded request with a valid token a new token is put in the
\* response's cookie before the body runs, with iat = now, exp = now + TTL and
\* sub, iss, data, token as in the presented token.
C2_RenewedBeforeBody ==
    GuardedDone /\ PresentedValid =>
        /\ HasEvent(resp.log, "set_cookie")
        /\ HasEvent(resp.log, "body")
        /\ Position(resp.log, "set_cookie") < Position(resp.log, "body")
        /\ LET renewed == resp.log[Position(resp.log, "set_cookie")].tok
               old == req.presented.payload
           IN  /\ renewed.key = SecretKey
               /\ renewed.payload.iat = req.at
               /\ renewed.payload.exp = req.at + Expiration
               /\ renewed.payload.sub = old.sub
               /\ renewed.payload.iss = old.iss
               /\ renewed.payload.data = old.data
               /\ renewed.payload.token = old.token

\* a valid token issued earlier than the request is renewed
C2_Witness ==
    /\ req.kind = "resource"
    /\ PresentedValid
    /\ req.presented.payload.iat < req.at
    /\ HasEvent(resp.log, "body")

\* C3: sign-in creates no token unless the provider returned a user record:
\* an unknown provider or an absent answer ends in 401 with no token encoded
\* and no cookie set, and an unknown provider is never asked to authenticate.
C3_NoTokenWithoutUser ==
    req.kind = "signin" =>
        /\ req.provider \notin Providers =>
              /\ pc = "idle"
              /\ resp.status = 401
              /\ ~HasEvent(resp.log, "authenticate")
        /\ (pc = "idle" /\ (req.provider \notin Providers \/ req.answer.absent)) =>
              /\ resp.status = 401
              /\ ~HasEvent(resp.log, "encode")
              /\ ~HasEvent(resp.log, "set_cookie")
              /\ ~resp.body.authenticated
        /\ (HasEvent(resp.log, "encode") \/ HasEvent(resp.log, "set_cookie")) =>
              req.provider \in Providers /\ ~req.answer.absent

\* a known provider was asked and answered None
C3_Witness ==
    /\ req.kind = "signin"
    /\ pc = "idle"
    /\ req.provider \in Providers
    /\ HasEvent(resp.log, "authenticate")
    /\ req.answer.absent
    /\ resp.status = 401

\* a guarded request that presented, still valid, the token the guarded
\* request just before it had issued
RenewalChain ==
    /\ GuardedDone
    /\ req.previous # NoCookie
    /\ req.presented = req.previous
    /\ PresentedValid

\* C17 as claimed: in a chain of guarded requests every renewal's exp is
\* strictly greater than the previous renewal's exp, sub and data unchanged.
C17_ExpStrictlyGrows ==
    RenewalChain =>
        LET renewed == RenewedBy(req.kind, resp).payload
        IN  /\ renewed.exp > req.previous.payload.exp
            /\ renewed.sub = req.previous.payload.sub
            /\ renewed.data = req.previous.payload.data

\* C17 as amended: every renewal's exp is the request's clock reading plus
\* the TTL, so it is strictly greater than the previous renewal's exp exactly
\* when the clock reads later than at the previous renewal, and equal when
\* both requests read the same clock value; sub and data are those of the
\* previous token (and sub is the id in data, as at sign-in).
C17_ExpGrowsWithClock ==
    RenewalChain =>
        LET renewed == RenewedBy(req.kind, resp).payload
            before == req.previous.payload
        IN  /\ renewed.exp = req.at + Expiration
            /\ renewed.exp > before.exp <=> req.at > before.iat
            /\ req.at = before.iat => renewed.exp = before.exp
            /\ renewed.sub = before.sub
            /\ renewed.data = before.data
            /\ renewed.sub = renewed.data.id

\* a second renewal, one tick or more after the first
C17_Witness ==
    /\ RenewalChain
    /\ req.at > req.previous.payload.iat
    /\ RenewedBy(req.kind, resp).payload.exp > req.previous.payload.exp

\* C18: sign-out with a valid token clears the token carrier after the guard's
\* renewal (the clear wins) and answers loggedOut; without a valid token it
\* answers 401, clears nothing and reports nothing.
C18_SignoutClearsAfterRenewal ==
    req.kind = "signout" =>
        /\ PresentedValid =>
              /\ HasEvent(resp.log, "set_cookie")
              /\ HasEvent(resp.log, "clear_cookie")
              /\ Position(resp.log, "set_cookie") < Position(resp.log, "clear_cookie")
              /\ CookieAfter(req.presented, resp) = NoCookie
              /\ cookie = NoCookie
              /\ resp.status = 200
              /\ resp.body.loggedOut
        /\ ~PresentedValid =>
              /\ resp.status = 401
              /\ ~HasEvent(resp.log, "clear_cookie")
              /\ ~resp.body.loggedOut
              /\ ~resp.body.written

\* a sign-out that presented a valid token
C18_Witness ==
    /\ req.kind = "signout"
    /\ PresentedValid
    /\ resp.body.loggedOut
    /\ cookie = NoCookie

\* C19: me always answers 200 with authenticated = validity of the presented
\* token, user_data present iff authenticated and equal to the data claim, and
\* neither rejects nor touches the token carrier.
C19_MeReportsOnly ==
    req.kind = "me" =>
        /\ resp.status = 200
        /\ ~resp.raised
        /\ resp.body.written
        /\ resp.body.authenticated = PresentedValid
        /\ resp.body.has_user_data = PresentedValid
        /\ PresentedValid => resp.body.user_data = req.presented.payload.data
        /\ ~HasEvent(resp.log, "set_cookie")
        /\ ~HasEvent(resp.log, "clear_cookie")
        /\ ~HasEvent(resp.log, "encode")
        /\ CookieAfter(req.presented, resp) = req.presented

\* me asked with a valid token, some time after it was issued
C19_Witness ==
    /\ req.kind = "me"
    /\ PresentedValid
    /\ req.at > req.presented.payload.iat
    /\ resp.body.has_user_data
    /\ cookie = req.presented

(***************************************************************************)
(* Properties of GET and of path resolution (SpecRest)                     *)
(***************************************************************************)
\* the path names the root collection and then the relation of a User
WellNamed(path) ==
    /\ path[1].field = "users"
    /\ \A i \in 2..Len(path) : path[i].field = "orders"

\* the instance a path ending in an id addresses is stored
AddressedExists(st, path) ==
    \/ Len(path) = 1 /\ path[1].id \in st.users
    \/ /\ Len(path) = 2
       /\ path[1].id \in st.users
       /\ st.owner[path[2].id] = path[1].id

GetById ==
    /\ rest.method = "GET"
    /\ WellNamed(rest.path)
    /\ rest.path[Len(rest.path)].id # 0

\* C4: a GET whose path ends in an id yields NotFound whenever the addressed
\* instance does not exist, also when an ancestor is absent.
C4_AbsentIsNotFound ==
    (GetById /\ ~AddressedExists(store, rest.path)) => rest.status = 404

\* C5: for a path "users/u", "orders/o" whose instances exist, the resolved
\* target and the GET response are the single instance o of u's orders.
C5_NestedIdIsInstance ==
    (GetById /\ Len(rest.path) = 2 /\ AddressedExists(store, rest.path)) =>
        /\ rest.resolved.obj = Instance("Order", rest.path[2].id)
        /\ rest.status = 200
        /\ rest.body = Instance("Order", rest.path[2].id)

\* C6: one path resolution fetches by id at most once, and only for the first
\* segment, whatever the store holds.
C6_OneFetchFirstSegment ==
    rest.method = "GET" =>
        /\ Len(rest.resolved.fetches) <= 1
        /\ \A i \in 1..Len(rest.resolved.fetches) : rest.resolved.fetches[i].segment = 1

\* C7: a GET of "users/u", "orders" returns exactly the orders of user u, in
\* order.
C7_NestedListIsSubCollection ==
    (/\ rest.method = "GET"
     /\ Len(rest.path) = 2
     /\ WellNamed(rest.path)
     /\ rest.path[2].id = 0
     /\ rest.path[1].id \in store.users) =>
        /\ rest.status = 200
        /\ rest.body = ListObj("Order", OrdersOf(store, rest.path[1].id))

(***************************************************************************)
(* Properties of get_list (SpecList)                                       *)
(***************************************************************************)
\* ceil(count / page_size): the least n with n * page_size >= count
CeilDiv(count, per_page) ==
    CHOOSE n \in 0..count :
        /\ n * per_page >= count
        /\ \A m \in 0..count : m * per_page >= count => n <= m

\* the items at the 0-based positions [from, to) of s
Positions(s, from, to) ==
    [k \in 1..(Min(to, Len(s)) - from) |-> s[from + k]]

\* C8: for page >= 1 get_list returns nothing when there are no pages and
\* otherwise the positions [page_size*(p-1), page_size*p) of the filtered
\* collection with p = min(page, pages), pages = ceil(count/page_size); a page
\* beyond the last returns what the last page returns.
C8_PageClampedToLast ==
    (lst.done /\ lst.page >= 1) =>
        LET queryset == Filtered(lst.rows, lst.tag)
            pages == CeilDiv(Len(queryset), lst.per_page)
            p == Min(lst.page, pages)
        IN  /\ pages = 0 => lst.items = <<>>
            /\ pages > 0 =>
                 lst.items = Positions(queryset, lst.per_page * (p - 1), lst.per_page * p)
            /\ lst.page > pages =>
                 lst.items = GetList(lst.rows, pages, lst.per_page, lst.tag)

\* a page beyond a last page that is not full
C8_Witness ==
    /\ lst.done
    /\ Len(Filtered(lst.rows, lst.tag)) % lst.per_page # 0
    /\ lst.page > CeilDiv(Len(Filtered(lst.rows, lst.tag)), lst.per_page)
    /\ CeilDiv(Len(Filtered(lst.rows, lst.tag)), lst.per_page) >= 2
    /\ lst.tag # ""
    /\ Len(lst.items) = Len(Filtered(lst.rows, lst.tag)) % lst.per_page

\* C9: for a non-empty collection a page <= 0 is rejected or returns the
\* items of page 1 (get_list has no rejecting path, so: the items of page 1).
C9_NonPositivePageIsFirst ==
    (lst.done /\ lst.page <= 0 /\ Len(Filtered(lst.rows, lst.tag)) > 0) =>
        lst.items = GetList(lst.rows, 1, lst.per_page, lst.tag)

(***************************************************************************)
(* Properties of dump_instance (SpecDump)                                  *)
(***************************************************************************)
ScalarsOf(n) == [f \in ScalarFields |-> ScalarValue(n, f)]

\* C10: dump_instance at depth 0 of an instance without to_dict never raises
\* MaxDepthError; every scalar of depth 0 and 1 and every single reference of
\* depth 0 is in the output, and the single references of depth 1 (whose
\* targets would be dumped at depth 2) are not.
C10_DepthGuardIsLocal ==
    (dmp.done /\ ~dmp.graph.custom[dmp.root]) =>
        /\ ~dmp.raised
        /\ dmp.out.kind = "dict"
        /\ dmp.out.scalars = ScalarsOf(dmp.root)
        /\ DOMAIN dmp.out.refs = RefFields
        /\ \A f \in RefFields :
             LET c == dmp.graph.next[dmp.root]
             IN  /\ c = 0 => dmp.out.refs[f] = EmptyDict
                 /\ (c # 0 /\ ~dmp.graph.custom[c]) =>
                      /\ dmp.out.refs[f].scalars = ScalarsOf(c)
                      /\ DOMAIN dmp.out.refs[f].refs = {}

\* a chain of three references through three distinct plain instances
C10_Witness ==
    LET a == dmp.root
        b == dmp.graph.next[a]
        c == dmp.graph.next[b]
    IN  /\ dmp.done
        /\ b # 0 /\ b # a
        /\ c # 0 /\ c # a /\ c # b
        /\ dmp.graph.next[c] # 0
        /\ \A n \in Nodes : ~dmp.graph.custom[n]
        /\ ~dmp.raised

(***************************************************************************)
(* Properties of the provider's field assignments (SpecFields)             *)
(***************************************************************************)
\* the top-level field a key of the data touches
Touched(key) == StripBrackets(key[1])

\* C14: a mutating provider operation that returns has committed what the
\* session holds, and after one that raised part-way a read through the same
\* session shows the instance as it was before the operation.
C14_FailedWritesInvisible ==
    /\ (fld.done /\ ~fld.out.raised) => fld.out.db = fld.out.session
    /\ (fld.was_read /\ fld.out.raised) => fld.read = fld.rec

\* C15: after update_instance returns, updated_fields has an entry for exactly
\* the top-level fields touched by a key of the data, whether the key is
\* plain, dotted one level or dotted several levels.
C15_EveryTouchedFieldRecorded ==
    (fld.op = "update_instance" /\ fld.done /\ ~fld.out.raised) =>
        \A f \in Attributes :
            fld.out.uf[f].present <=>
                \E i \in 1..Len(fld.data) : Touched(fld.data[i].key) = f

\* C16: update_instance applied to an instance assigns what the loop of
\* save_new_instance assigns for the same data on an instance in the same
\* state, and raises exactly when that loop raises; a key "orders[]" appends
\* in both.
C16_UpdateAssignsAsSave ==
    (fld.op = "update_instance" /\ fld.done) =>
        LET created == SaveLoop(fld.rec, fld.data, 1)
        IN  /\ fld.out.raised = created.raised
            /\ ~created.raised => fld.out.session = created.inst

(***************************************************************************)
(* Properties of POST, PUT and DELETE (SpecRest)                           *)
(***************************************************************************)
InLog(e) == \E i \in 1..Len(rest.log) : rest.log[i] = e

\* the first position of e in the log
LogIndex(e) ==
    CHOOSE i \in 1..Len(rest.log) :
        rest.log[i] = e /\ \A j \in 1..(i - 1) : rest.log[j] # e

\* every provider mutation the handler calls has returned
CompletesMutation ==
    \/ /\ rest.method = "POST"
       /\ InLog("saved")
       /\ rest.resolved.obj.kind = "none" \/ InLog("associated")
    \/ /\ rest.method = "PUT"
       /\ InLog("updated")
       /\ rest.resolved.pk \in rest.before.users
    \/ rest.method = "DELETE" /\ InLog("deleted")

MatchingSignal ==
    IF rest.method = "POST" THEN "post_create_instance"
    ELSE IF rest.method = "PUT" THEN "post_update_instance"
    ELSE "post_delete_instance"

MatchingKind ==
    IF rest.method = "POST" THEN "created"
    ELSE IF rest.method = "PUT" THEN "updated"
    ELSE "deleted"

\* the last provider mutation of the handler has returned
LastMutation ==
    IF rest.method = "POST"
    THEN IF rest.resolved.obj.kind = "none" THEN "saved" ELSE "associated"
    ELSE MatchingKind

\* C11: a POST, PUT or DELETE whose provider mutation returned sends exactly
\* one signal, of the matching kind, after the mutation returned; every other
\* request sends none.
C11_OneSignalAfterMutation ==
    rest.method # "" =>
        IF CompletesMutation
        THEN /\ rest.signals = <<MatchingKind>>
             /\ InLog(MatchingSignal)
             /\ LogIndex(MatchingSignal) > LogIndex(LastMutation)
        ELSE rest.signals = <<>>

DeleteById ==
    /\ rest.method = "DELETE"
    /\ WellNamed(rest.path)
    /\ rest.path[Len(rest.path)].id # 0

\* the addressed instance is gone and nothing else is
Removed(before, after, path) ==
    IF Len(path) = 1
    THEN /\ after.users = before.users \ {path[1].id}
         /\ after.orders = before.orders
    ELSE /\ after.users = before.users
         /\ after.orders = before.orders \ {path[2].id}

\* C12: a DELETE of an id no instance has answers 'FAIL' without raising,
\* sends no signal and leaves the store as it was; a DELETE of an existing id
\* removes the instance, sends 'deleted' and answers 'OK'.
C12_DeleteAbsentFails ==
    DeleteById =>
        IF AddressedExists(rest.before, rest.path)
        THEN /\ rest.text = "OK"
             /\ rest.signals = <<"deleted">>
             /\ Removed(rest.before, store, rest.path)
        ELSE /\ rest.status = 200
             /\ rest.text = "FAIL"
             /\ rest.signals = <<>>
             /\ store = rest.before

\* a POST to the root collection, or to the orders of a stored User, with
\* data the creation accepts
PostAccepted ==
    /\ rest.method = "POST"
    /\ WellNamed(rest.path)
    /\ rest.path[Len(rest.path)].id = 0
    /\ Len(rest.path) = 2 => rest.path[1].id \in rest.before.users
    /\ ~SaveNewRaises(rest.resolved.model, rest.data)

\* C13: a POST resolves the parent, creates the instance, associates it to the
\* parent (not for the root collection), sends 'created' and answers with the
\* new id and its location, in this order; after a nested POST the new Order
\* is one of the parent's orders.
C13_PostCreatesAssociatesAnswers ==
    PostAccepted =>
        LET new == NewId(rest.before, rest.resolved.model)
        IN  /\ Len(rest.path) = 2 =>
                    rest.log = <<"get_parent_model", "save_new_instance", "saved",
                                 "associate_instance", "associated",
                                 "post_create_instance", "get_instance_id", "write">>
            /\ Len(rest.path) = 1 =>
                    rest.log = <<"get_parent_model", "save_new_instance", "saved",
                                 "associate_instance",
                                 "post_create_instance", "get_instance_id", "write">>
            /\ rest.signals = <<"created">>
            /\ rest.created_id = new
            /\ rest.location = Instance("users", new)
            /\ rest.text = "OK"
            /\ Len(rest.path) = 2 => store.owner[new] = rest.path[1].id
            /\ Len(rest.path) = 1 => store.users = rest.before.users \cup {new}

(***************************************************************************)
(* Properties of get_instance and delete_instance (SpecStore)              *)
(***************************************************************************)
\* C20: get_instance(i) returns the stored instance i, delete_instance(i)
\* returns it and removes it, a get_instance(i) after that returns None, a
\* second delete_instance(i) returns None and changes nothing, and the
\* instances with other ids stay as they were.
C20_GetDeleteGet ==
    /\ \A i \in prv.deleted : GetInstance(store, i) = NoneObj
    /\ prv.op = "get_instance" =>
        /\ prv.pk \in prv.before.users => prv.result = Instance(RootModel, prv.pk)
        /\ prv.again => prv.result = NoneObj
        /\ store = prv.before
    /\ prv.op = "delete_instance" =>
        /\ prv.pk \in prv.before.users =>
            /\ prv.result = Instance(RootModel, prv.pk)
            /\ prv.pk \notin store.users
        /\ prv.again =>
            /\ prv.result = NoneObj
            /\ store = prv.before
        /\ store.users \ {prv.pk} = prv.before.users \ {prv.pk}
        /\ store.orders = prv.before.orders
        /\ \A o \in Ids :
            prv.before.owner[o] # prv.pk => store.owner[o] = prv.before.owner[o]

\* a stored instance was deleted, then deleted again, next to another
\* instance that is still stored
C20_Witness ==
    /\ prv.op = "delete_instance"
    /\ prv.again
    /\ prv.pk \in prv.deleted
    /\ store.users # {}

(***************************************************************************)
(* Further properties of creation, serialization and nested POST           *)
(***************************************************************************)
\* save_new_instance was called with the one key "address.city"
CreatedWithCity ==
    /\ fld.op = "save_new_instance"
    /\ fld.done
    /\ Len(fld.data) = 1
    /\ fld.data[1].key = KeyCity

\* C21 (SpecFields): save_new_instance with the one key "address.city"
\* succeeds on the freshly constructed instance, sets city of its address to
\* the value and leaves the other properties of the address unchanged.
C21_DottedKeySetsNested ==
    CreatedWithCity =>
        /\ ~fld.out.raised
        /\ fld.out.in_db
        /\ fld.out.db.address.city = fld.data[1].value
        /\ fld.out.db.address.zip = FreshUser.address.zip
        /\ fld.out.db.address.geo = FreshUser.address.geo

\* C22 (SpecDump): an instance whose class defines to_dict is dumped as the
\* result of to_dict wherever dump_instance reaches it: as the root, as the
\* reference of the root (depth 1) and as the reference of that reference
\* (depth 2).
C22_ToDictAtEveryDepth ==
    dmp.done =>
        LET a == dmp.root
            b == dmp.graph.next[a]
            c == IF b = 0 THEN 0 ELSE dmp.graph.next[b]
        IN  /\ dmp.graph.custom[a] => (~dmp.raised /\ dmp.out = ToDict(a))
            /\ (~dmp.graph.custom[a] /\ b # 0 /\ dmp.graph.custom[b]) =>
                 /\ "next" \in DOMAIN dmp.out.refs
                 /\ dmp.out.refs["next"] = ToDict(b)
            /\ (~dmp.graph.custom[a] /\ b # 0 /\ ~dmp.graph.custom[b]
                    /\ c # 0 /\ dmp.graph.custom[c]) =>
                 /\ "next" \in DOMAIN dmp.out.refs
                 /\ "next" \in DOMAIN dmp.out.refs["next"].refs
                 /\ dmp.out.refs["next"].refs["next"] = ToDict(c)

====
